---- MODULE Spec2Model ----
(***************************************************************************)
(* A model of git_analysis.py: the CODEOWNERS resolver (get_code_owners,   *)
(* match_path_to_owner) and the analysis run of main() (history walk,      *)
(* per-commit diff loop, aggregation and ranked report).                   *)
(*                                                                         *)
(* Strings are sequences of one-character strings, so that strip, split,   *)
(* replace and the regular-expression match are computed character by      *)
(* character, as the code computes them.                                   *)
(***************************************************************************)
EXTENDS Integers, Sequences, FiniteSets, TLC

VARIABLES
    codeowners_exists,  \* whether <repo>/CODEOWNERS exists
    codeowners,         \* its contents, a string
    file_path,          \* the path handed to match_path_to_owner
    owners_dict,        \* the dict get_code_owners returned (insertion-ordered)
    owner,              \* what match_path_to_owner returned
    pc,                 \* the position of the run
    has_master,         \* whether the branch 'master' resolves
    history,            \* what repo.iter_commits('master', since=...) yields
    since_date,         \* the cutoff of the run
    i,                  \* commits of the loop completed
    commit_data,        \* the ChangeRecords collected so far
    file_changes,       \* the rows (owner, file, changes) of the grouping
    owner_total_changes,\* the totals per owner, sorted
    shown_found,        \* "Found n commits to analyze": <<n>>, or <<>>
    shown_warning,      \* the st.warning text, or ""
    shown_error,        \* whether st.error / st.exception reported an error
    shown_metrics,      \* the summary metrics shown: <<record>>, or <<>>
    shown_tables,       \* the per-owner expanders, in the order emitted
    session,            \* st.session_state
    runs                \* runs of the script started so far

repo_vars == <<codeowners_exists, codeowners, has_master, history>>

call_vars == <<file_path, owner>>

run_vars == <<since_date, i, commit_data, file_changes, owner_total_changes,
              shown_found, shown_warning, shown_error, shown_metrics,
              shown_tables, session, runs>>

vars == <<repo_vars, call_vars, owners_dict, pc, run_vars>>

(***************************************************************************)
(* Bounds of the model.                                                    *)
(***************************************************************************)
MaxFileLen == 6     \* characters of a CODEOWNERS file (parsing)
MaxRules == 2       \* rule lines of a CODEOWNERS file (resolution)
MaxPatLen == 2      \* characters of a pattern
MaxPathLen == 3     \* characters of a file path
MaxCommits == 3     \* commits of a history
MaxEntries == 1     \* first-parent diff entries of a history with merges
MaxRecords == 3     \* diff entries of a history without merges
MaxFiles == 32      \* files of the one large commit
MaxExtra == 2       \* commits that follow the large commit
MaxRuns == 2        \* runs of the script
FullTieLen == 3     \* rows up to which every order of a tie is drawn

\* .head(30)
TopN == 30

(***************************************************************************)
(* Strings.                                                                *)
(***************************************************************************)
StringsUpTo(A, n) == UNION {[1..k -> A] : k \in 0..n}

NonEmptyStringsUpTo(A, n) == UNION {[1..k -> A] : k \in 1..n}

Unknown == <<"U", "n", "k", "n", "o", "w", "n">>

\* str.isspace() for the characters of the model
Whitespace == {" ", "\t", "\n", "\r"}

RECURSIVE LStrip(_)
LStrip(s) ==
    IF s # <<>> /\ Head(s) \in Whitespace THEN LStrip(Tail(s)) ELSE s

RECURSIVE RStrip(_)
RStrip(s) ==
    IF s # <<>> /\ s[Len(s)] \in Whitespace
    THEN RStrip(SubSeq(s, 1, Len(s) - 1))
    ELSE s

\* line.strip()
Strip(s) == RStrip(LStrip(s))

\* the first whitespace-free run of s (s does not start with whitespace)
RECURSIVE TakeToken(_)
TakeToken(s) ==
    IF s = <<>> \/ Head(s) \in Whitespace
    THEN <<>>
    ELSE <<Head(s)>> \o TakeToken(Tail(s))

\* line.split(): the maximal whitespace-free runs, in order
RECURSIVE Split(_)
Split(s) ==
    LET t == LStrip(s)
        tok == TakeToken(t)
    IN IF t = <<>>
       THEN <<>>
       ELSE <<tok>> \o Split(SubSeq(t, Len(tok) + 1, Len(t)))

\* line.startswith(c)
StartsWith(s, c) == s # <<>> /\ Head(s) = c

\* s.replace(c, r) for a one-character c
RECURSIVE Replace(_, _, _)
Replace(s, c, r) ==
    IF s = <<>>
    THEN <<>>
    ELSE (IF Head(s) = c THEN r ELSE <<Head(s)>>) \o Replace(Tail(s), c, r)

\* open(path): a file opened in text mode is read with universal newlines,
\* so "\r\n" and a lone "\r" reach the program as "\n"
RECURSIVE UniversalNewlines(_)
UniversalNewlines(s) ==
    IF s = <<>>
    THEN <<>>
    ELSE IF Head(s) = "\r"
    THEN <<"\n">> \o UniversalNewlines(
                         IF Len(s) >= 2 /\ s[2] = "\n"
                         THEN SubSeq(s, 3, Len(s))
                         ELSE Tail(s))
    ELSE <<Head(s)>> \o UniversalNewlines(Tail(s))

\* the lines of a text, each with its "\n"
RECURSIVE SplitLines(_)
SplitLines(s) ==
    IF s = <<>>
    THEN <<>>
    ELSE LET n == CHOOSE k \in 1..Len(s) :
                      /\ (s[k] = "\n" \/ k = Len(s))
                      /\ \A j \in 1..(k - 1) : s[j] # "\n"
         IN <<SubSeq(s, 1, n)>> \o SplitLines(SubSeq(s, n + 1, Len(s)))

\* `for line in f`: the lines of a text file, each with its line break
FileLines(s) == SplitLines(UniversalNewlines(s))

(***************************************************************************)
(* Regular expressions, for the expressions the translation produces from  *)
(* patterns of letters, `.', `/' and `*': a sequence of atoms (a literal   *)
(* character, an escaped character, or `.'), each optionally starred.      *)
(***************************************************************************)
\* re.compile(p): the atoms of the expression p
RECURSIVE ReCompile(_)
ReCompile(p) ==
    IF p = <<>>
    THEN <<>>
    ELSE LET esc == Head(p) = "\\" /\ Len(p) >= 2
             w == IF esc THEN 2 ELSE 1
             atom == IF esc THEN [kind |-> "lit", ch |-> p[2]]
                     ELSE IF Head(p) = "." THEN [kind |-> "any", ch |-> "."]
                     ELSE [kind |-> "lit", ch |-> Head(p)]
             star == Len(p) > w /\ p[w + 1] = "*"
             rest == SubSeq(p, w + (IF star THEN 2 ELSE 1), Len(p))
         IN <<[kind |-> atom.kind, ch |-> atom.ch, star |-> star]>>
                \o ReCompile(rest)

\* one atom against one character (`.' matches anything but a line break)
AtomMatches(a, c) ==
    IF a.kind = "any" THEN c # "\n" ELSE a.ch = c

\* whether the atoms from position m on match s from position j on, anchored
\* at j and free at the end (Pattern.match)
RECURSIVE MatchHere(_, _, _, _)
MatchHere(atoms, m, s, j) ==
    IF m > Len(atoms)
    THEN TRUE
    ELSE IF atoms[m].star
    THEN \/ MatchHere(atoms, m + 1, s, j)
         \/ /\ j <= Len(s)
            /\ AtomMatches(atoms[m], s[j])
            /\ MatchHere(atoms, m, s, j + 1)
    ELSE /\ j <= Len(s)
         /\ AtomMatches(atoms[m], s[j])
         /\ MatchHere(atoms, m + 1, s, j + 1)

\* pattern.match(file_path) is not None
PatternMatch(regex, path) == MatchHere(ReCompile(regex), 1, path, 1)

(***************************************************************************)
(* get_code_owners and match_path_to_owner.                                *)
(***************************************************************************)
\* pattern.replace('*', '.*').replace('/', '\\/')
TranslatePattern(pattern) ==
    Replace(Replace(pattern, "*", <<".", "*">>), "/", <<"\\", "/">>)

\* owners_dict[key] = value on an insertion-ordered dict: a key already in the
\* dict keeps its place and takes the new value. Compiled patterns are equal
\* when their expressions are.
DictSet(d, key, value) ==
    IF \E k \in 1..Len(d) : d[k].pattern = key
    THEN [k \in 1..Len(d) |->
             IF d[k].pattern = key
             THEN [pattern |-> key, owner |-> value]
             ELSE d[k]]
    ELSE Append(d, [pattern |-> key, owner |-> value])

\* ReadLine without the test for a comment line
ReadLineNoComment(d, raw) ==
    LET line == Strip(raw)
        parts == Split(line)
    IN IF line # <<>> /\ Len(parts) >= 2
       THEN DictSet(d, TranslatePattern(parts[1]), parts[2])
       ELSE d

\* the body of the loop over the lines of the file
ReadLine(d, raw) ==
    LET line == Strip(raw)
        parts == Split(line)
    IN IF line # <<>> /\ ~StartsWith(line, "#") /\ Len(parts) >= 2
       THEN DictSet(d, TranslatePattern(parts[1]), parts[2])
       ELSE d

RECURSIVE ReadLines(_, _)
ReadLines(d, lines) ==
    IF lines = <<>> THEN d ELSE ReadLines(ReadLine(d, Head(lines)), Tail(lines))

get_code_owners(exists, contents) ==
    IF ~exists THEN <<>> ELSE ReadLines(<<>>, FileLines(contents))

RECURSIVE match_path_to_owner(_, _)
match_path_to_owner(path, d) ==
    IF d = <<>>
    THEN Unknown
    ELSE IF PatternMatch(Head(d).pattern, path)
    THEN Head(d).owner
    ELSE match_path_to_owner(path, Tail(d))

(***************************************************************************)
(* The resolver called on its own: get_code_owners on the repository's     *)
(* CODEOWNERS file, then match_path_to_owner on a path.                     *)
(***************************************************************************)
LoadOwners ==
    /\ pc = "start"
    /\ owners_dict' = get_code_owners(codeowners_exists, codeowners)
    /\ pc' = "loaded"
    /\ UNCHANGED <<repo_vars, call_vars, run_vars>>

MatchPath ==
    /\ pc = "loaded"
    /\ owner' = match_path_to_owner(file_path, owners_dict)
    /\ pc' = "matched"
    /\ file_path' = file_path
    /\ UNCHANGED <<repo_vars, owners_dict, run_vars>>

\* the run of main() is not started in the resolver's own specifications
NoRun ==
    /\ has_master = TRUE
    /\ history = <<>>
    /\ since_date = 0
    /\ i = 0
    /\ commit_data = <<>>
    /\ file_changes = <<>>
    /\ owner_total_changes = <<>>
    /\ shown_found = <<>>
    /\ shown_warning = ""
    /\ shown_error = FALSE
    /\ shown_metrics = <<>>
    /\ shown_tables = <<>>
    /\ session = [analysis_df |-> <<>>, since_date |-> <<>>, repo_path |-> <<>>]
    /\ runs = 0

\* Parsing: every file of at most MaxFileLen characters of blanks, line
\* breaks ("\n", "\r" and "\r\n"), `#', `*' and a letter.
ParseAlphabet == {" ", "\n", "\r", "#", "a", "*"}

InitParse ==
    /\ codeowners_exists = TRUE
    /\ codeowners \in StringsUpTo(ParseAlphabet, MaxFileLen)
    /\ file_path = <<"a">>
    /\ owners_dict = <<>>
    /\ owner = <<>>
    /\ pc = "start"
    /\ NoRun

SpecParse == InitParse /\ [][LoadOwners \/ MatchPath]_vars

\* Resolution: every file of at most MaxRules rule lines `<pattern> <owner>',
\* or no file, and every path.
PatternAlphabet == {"a", "/", "*", "."}
PathAlphabet == {"a", "b", "/"}
OwnerNames == {<<"@", "x">>, <<"@", "y">>}

RuleLine(pattern, name) == pattern \o <<" ">> \o name \o <<"\n">>

RuleLines ==
    {RuleLine(p, o) : p \in NonEmptyStringsUpTo(PatternAlphabet, MaxPatLen),
                      o \in OwnerNames}

RECURSIVE Concat(_)
Concat(ss) == IF ss = <<>> THEN <<>> ELSE Head(ss) \o Concat(Tail(ss))

InitResolve ==
    /\ codeowners_exists \in BOOLEAN
    /\ \E ls \in StringsUpTo(RuleLines, MaxRules) :
          /\ codeowners_exists \/ ls = <<>>
          /\ codeowners = Concat(ls)
    /\ file_path \in StringsUpTo(PathAlphabet, MaxPathLen)
    /\ owners_dict = <<>>
    /\ owner = <<>>
    /\ pc = "start"
    /\ NoRun

SpecResolve == InitResolve /\ [][LoadOwners \/ MatchPath]_vars

(***************************************************************************)
(* The resolver's claims.                                                  *)
(***************************************************************************)
\* the rule lines of the file, in file order: the lines that, stripped, are
\* not empty, do not start with `#' and have at least two tokens
RuleLinesOf(contents) ==
    SelectSeq(FileLines(contents),
              LAMBDA raw : /\ Strip(raw) # <<>>
                           /\ Head(Strip(raw)) # "#"
                           /\ Len(Split(Strip(raw))) >= 2)

\* the rule a rule line stands for: first token the pattern, second the owner
RuleOf(raw) ==
    [pattern |-> TranslatePattern(Split(raw)[1]), owner |-> Split(raw)[2]]

RulesOf(contents) ==
    [k \in 1..Len(RuleLinesOf(contents)) |-> RuleOf(RuleLinesOf(contents)[k])]

\* the owner of the first rule, in file order, whose pattern matches the path
RECURSIVE FirstMatch(_, _)
FirstMatch(rules, path) ==
    IF rules = <<>>
    THEN Unknown
    ELSE IF PatternMatch(Head(rules).pattern, path)
    THEN Head(rules).owner
    ELSE FirstMatch(Tail(rules), path)

\* C1: resolving a path through get_code_owners and match_path_to_owner
\* returns the owner of the first rule line, in file order, whose pattern
\* matches the path, and "Unknown" when none matches or there is no file.
C1_FirstRuleLineWins ==
    pc = "matched" =>
        owner = (IF codeowners_exists
                 THEN FirstMatch(RulesOf(codeowners), file_path)
                 ELSE Unknown)

\* the glob reading of a pattern: `*' stands for any run of characters, every
\* other character for itself, anchored at the start, free at the end
RECURSIVE GlobPrefix(_, _, _, _)
GlobPrefix(pat, m, s, j) ==
    IF m > Len(pat)
    THEN TRUE
    ELSE IF pat[m] = "*"
    THEN \/ GlobPrefix(pat, m + 1, s, j)
         \/ (j <= Len(s) /\ GlobPrefix(pat, m, s, j + 1))
    ELSE /\ j <= Len(s)
         /\ s[j] = pat[m]
         /\ GlobPrefix(pat, m + 1, s, j + 1)

\* C2: the compiled pattern of a rule matches a path exactly when a prefix of
\* the path is the pattern with each `*' replaced by a run of characters and
\* every other character standing for itself.
C2_GlobPrefixMatch ==
    (pc = "loaded" /\ Len(RuleLinesOf(codeowners)) = 1) =>
        LET pattern == Split(RuleLinesOf(codeowners)[1])[1]
        IN /\ Len(owners_dict) = 1
           /\ PatternMatch(owners_dict[1].pattern, file_path)
                  <=> GlobPrefix(pattern, 1, file_path, 1)

\* C10: parsing yields rules only from rule lines, each rule made of the
\* line's first token (the pattern) and second token (the owner), further
\* tokens ignored; blank lines, comment lines and one-token lines yield none.
C10_RulesFromRuleLines ==
    pc = "loaded" =>
        LET rules == RulesOf(codeowners)
            distinct == \A j, k \in 1..Len(rules) :
                            rules[j].pattern = rules[k].pattern => j = k
        IN /\ \A n \in 1..Len(owners_dict) :
                  \E k \in 1..Len(rules) : owners_dict[n] = rules[k]
           /\ \A k \in 1..Len(rules) :
                  \E n \in 1..Len(owners_dict) :
                      owners_dict[n].pattern = rules[k].pattern
           /\ distinct => owners_dict = rules

\* a file with a line that is no rule line and a rule line of three tokens
C10_Witness ==
    /\ pc = "loaded"
    /\ Len(FileLines(codeowners)) = 2
    /\ Len(RuleLinesOf(codeowners)) = 1
    /\ Len(Split(RuleLinesOf(codeowners)[1])) = 3
    /\ Len(owners_dict) = 1

(***************************************************************************)
(* pandas: the operations of the aggregation on a DataFrame, a sequence of *)
(* rows.                                                                   *)
(***************************************************************************)
\* ord(c), for the characters of the model
Ord(c) ==
    CASE c = "\n" -> 10 [] c = " " -> 32 [] c = "#" -> 35 [] c = "*" -> 42
      [] c = "." -> 46 [] c = "/" -> 47 [] c = "@" -> 64 [] c = "U" -> 85
      [] c = "a" -> 97 [] c = "b" -> 98 [] c = "k" -> 107 [] c = "n" -> 110
      [] c = "o" -> 111 [] c = "w" -> 119 [] c = "x" -> 120 [] c = "y" -> 121

\* s < t on strings
RECURSIVE StrLess(_, _)
StrLess(s, t) ==
    IF t = <<>> THEN FALSE
    ELSE IF s = <<>> THEN TRUE
    ELSE IF Head(s) = Head(t) THEN StrLess(Tail(s), Tail(t))
    ELSE Ord(Head(s)) < Ord(Head(t))

\* df[column].unique(), as a set
Unique(df, column) == {df[k][column] : k \in DOMAIN df}

InsertAt(rows, n, row) == SubSeq(rows, 1, n) \o <<row>> \o SubSeq(rows, n + 1, Len(rows))

\* CountRow that does not count a second row of a group
CountRowOnce(rows, r) ==
    IF \E k \in 1..Len(rows) : rows[k].owner = r.owner /\ rows[k].file = r.file
    THEN rows
    ELSE InsertAt(rows,
                  Cardinality({k \in 1..Len(rows) :
                      \/ StrLess(rows[k].owner, r.owner)
                      \/ /\ rows[k].owner = r.owner
                         /\ StrLess(rows[k].file, r.file)}),
                  [owner |-> r.owner, file |-> r.file, changes |-> 1])

\* one more row of df in the groups of (owner, file), kept in key order
CountRow(rows, r) ==
    IF \E k \in 1..Len(rows) : rows[k].owner = r.owner /\ rows[k].file = r.file
    THEN [k \in 1..Len(rows) |->
             IF rows[k].owner = r.owner /\ rows[k].file = r.file
             THEN [rows[k] EXCEPT !.changes = @ + 1]
             ELSE rows[k]]
    ELSE InsertAt(rows,
                  Cardinality({k \in 1..Len(rows) :
                      \/ StrLess(rows[k].owner, r.owner)
                      \/ /\ rows[k].owner = r.owner
                         /\ StrLess(rows[k].file, r.file)}),
                  [owner |-> r.owner, file |-> r.file, changes |-> 1])

\* df.groupby(['owner', 'file']).size().reset_index(name='changes'): one row
\* per (owner, file) of df with the number of its rows, the rows in the
\* order of the sorted group keys (groupby sorts its keys)
RECURSIVE GroupBySizeFrom(_, _)
GroupBySizeFrom(rows, df) ==
    IF df = <<>>
    THEN rows
    ELSE GroupBySizeFrom(CountRow(rows, Head(df)), Tail(df))

GroupBySize(df) == GroupBySizeFrom(<<>>, df)

\* file_changes[file_changes['owner'] == owner]
RowsOf(rows, name) == SelectSeq(rows, LAMBDA r : r.owner = name)

\* one more row of file_changes in the sums per owner, kept in owner order
SumRow(sums, r) ==
    IF \E k \in 1..Len(sums) : sums[k].owner = r.owner
    THEN [k \in 1..Len(sums) |->
             IF sums[k].owner = r.owner
             THEN [sums[k] EXCEPT !.changes = @ + r.changes]
             ELSE sums[k]]
    ELSE InsertAt(sums,
                  Cardinality({k \in 1..Len(sums) :
                      StrLess(sums[k].owner, r.owner)}),
                  [owner |-> r.owner, changes |-> r.changes])

\* file_changes.groupby('owner')['changes'].sum(): one entry per owner, in
\* the order of the sorted owners
RECURSIVE GroupBySumFrom(_, _)
GroupBySumFrom(sums, rows) ==
    IF rows = <<>>
    THEN sums
    ELSE GroupBySumFrom(SumRow(sums, Head(rows)), Tail(rows))

GroupBySum(rows) == GroupBySumFrom(<<>>, rows)

\* The orders in which a sort may leave the rows of a tie. sort_values sorts
\* with kind='quicksort', which is not stable: equal keys may come out in any
\* order. Up to FullTieLen rows every order is drawn; beyond, the order of
\* the rows and its reverse, each rotated by at most FullTieLen places.
TieOrders(n) ==
    IF n <= FullTieLen
    THEN Permutations(1..n)
    ELSE {[a \in 1..n |-> ((a - 1 + r) % n) + 1] : r \in 0..FullTieLen}
             \cup {[a \in 1..n |-> ((n - a + r) % n) + 1] : r \in 0..FullTieLen}

\* rows.sort_values('changes', ascending=False), ties left in the order
\* tie: the places of the rows, larger keys first
RECURSIVE SortedPlaces(_, _, _, _)
SortedPlaces(places, rows, tie, a) ==
    IF a > Len(rows)
    THEN places
    ELSE SortedPlaces(
             InsertAt(places,
                      Cardinality({k \in 1..Len(places) :
                          \/ rows[places[k]].changes > rows[a].changes
                          \/ /\ rows[places[k]].changes = rows[a].changes
                             /\ tie[places[k]] < tie[a]}),
                      a),
             rows, tie, a + 1)

\* SortValuesDesc with ascending=True
SortValuesAsc(rows, tie) ==
    LET places == SortedPlaces(<<>>, rows, tie, 1)
    IN [k \in 1..Len(rows) |-> rows[places[Len(rows) + 1 - k]]]

SortValuesDesc(rows, tie) ==
    LET places == SortedPlaces(<<>>, rows, tie, 1)
    IN [k \in 1..Len(rows) |-> rows[places[k]]]

\* rows.head(n)
HeadRows(rows, n) == SubSeq(rows, 1, IF Len(rows) < n THEN Len(rows) ELSE n)

\* the ties of the rows of one owner, as the ties of all rows leave them
TieWithin(rows, name, tie) ==
    LET at == SelectSeq([k \in 1..Len(rows) |-> k],
                        LAMBDA k : rows[k].owner = name)
    IN [a \in 1..Len(at) |-> tie[at[a]]]

\* OwnerTable with the rows cut to the first 30 before they are sorted
OwnerTableHeadFirst(rows, entry, tie) ==
    [owner |-> entry.owner,
     total_changes |-> entry.changes,
     owner_files |->
         SortValuesDesc(HeadRows(RowsOf(rows, entry.owner), TopN),
                        TieWithin(rows, entry.owner, tie))]

\* the expander of one owner: its total and its top rows
OwnerTable(rows, entry, tie) ==
    [owner |-> entry.owner,
     total_changes |-> entry.changes,
     owner_files |->
         HeadRows(SortValuesDesc(RowsOf(rows, entry.owner),
                                 TieWithin(rows, entry.owner, tie)),
                  TopN)]

\* the expanders, in the order of owner_total_changes.index
OwnerTables(rows, totals, file_tie) ==
    [k \in 1..Len(totals) |-> OwnerTable(rows, totals[k], file_tie)]

\* the three st.metric values
Metrics(df) ==
    [commits |-> Cardinality(Unique(df, "date")),
     files |-> Cardinality(Unique(df, "file")),
     owners |-> Cardinality(Unique(df, "owner"))]

(***************************************************************************)
(* main(): one run of the script per interaction. The repository path has  *)
(* passed its checks; the run starts at the click on 'Analyze Repository'. *)
(***************************************************************************)
NoSession == [analysis_df |-> <<>>, since_date |-> <<>>, repo_path |-> <<>>]

repo_path == "repo"

\* CommitRecords with the diff taken from the last parent
CommitRecordsLastParent(commit, d) ==
    IF commit.parents # <<>>
    THEN LET diffs == SelectSeq(commit.parents[Len(commit.parents)].diff,
                                LAMBDA diff : diff.a_path # <<>>)
         IN [k \in 1..Len(diffs) |->
                [date |-> commit.date,
                 author |-> commit.author,
                 file |-> diffs[k].a_path,
                 owner |-> match_path_to_owner(diffs[k].a_path, d)]]
    ELSE <<>>

\* the ChangeRecords of one commit: none for a commit without parents, else
\* one per entry with an a_path of the diff from its first parent
CommitRecords(commit, d) ==
    IF commit.parents # <<>>
    THEN LET diffs == SelectSeq(commit.parents[1].diff,
                                LAMBDA diff : diff.a_path # <<>>)
         IN [k \in 1..Len(diffs) |->
                [date |-> commit.date,
                 author |-> commit.author,
                 file |-> diffs[k].a_path,
                 owner |-> match_path_to_owner(diffs[k].a_path, d)]]
    ELSE <<>>

\* ClickAnalyze without the early return on an empty history
ClickAnalyzeNoReturn ==
    /\ pc = "idle"
    /\ IF ~has_master
       THEN /\ shown_error' = TRUE
            /\ pc' = "failed"
            /\ UNCHANGED <<shown_found, owners_dict>>
       ELSE /\ shown_found' = <<Len(history)>>
            /\ shown_error' = FALSE
            /\ owners_dict' = get_code_owners(codeowners_exists, codeowners)
            /\ pc' = "loop"
    /\ i' = 0
    /\ commit_data' = <<>>
    /\ UNCHANGED <<repo_vars, call_vars, since_date, file_changes,
                   owner_total_changes, shown_warning, shown_metrics,
                   shown_tables, session, runs>>

\* the click: the history walk, and the early return on an empty history; an
\* unresolved branch raises into the handler of the run
ClickAnalyze ==
    /\ pc = "idle"
    /\ IF ~has_master
       THEN /\ shown_error' = TRUE
            /\ pc' = "failed"
            /\ UNCHANGED <<shown_found, shown_warning, owners_dict>>
       ELSE /\ shown_found' = <<Len(history)>>
            /\ shown_error' = FALSE
            /\ IF history = <<>>
               THEN /\ shown_warning' = "No commits found in the specified time range"
                    /\ pc' = "done"
                    /\ UNCHANGED owners_dict
               ELSE /\ owners_dict' = get_code_owners(codeowners_exists, codeowners)
                    /\ pc' = "loop"
                    /\ UNCHANGED shown_warning
    /\ i' = 0
    /\ commit_data' = <<>>
    /\ UNCHANGED <<repo_vars, call_vars, since_date, file_changes,
                   owner_total_changes, shown_metrics, shown_tables, session,
                   runs>>

\* one pass of the loop over the commits
ProcessCommit ==
    /\ pc = "loop"
    /\ i < Len(history)
    /\ commit_data' = commit_data \o CommitRecords(history[i + 1], owners_dict)
    /\ i' = i + 1
    /\ UNCHANGED <<repo_vars, call_vars, owners_dict, pc, since_date,
                   file_changes, owner_total_changes, shown_found,
                   shown_warning, shown_error, shown_metrics, shown_tables,
                   session, runs>>

\* ProcessCommitRaises that keeps what the loop collected as the result
ProcessCommitRaisesPartial ==
    /\ pc = "loop"
    /\ i < Len(history)
    /\ shown_error' = TRUE
    /\ pc' = "failed"
    /\ session' = [analysis_df |-> <<commit_data>>,
                   since_date |-> <<since_date>>,
                   repo_path |-> <<repo_path>>]
    /\ UNCHANGED <<repo_vars, call_vars, owners_dict, since_date, i,
                   commit_data, file_changes, owner_total_changes, shown_found,
                   shown_warning, shown_metrics, shown_tables, runs>>

\* a pass of the loop that raises (the diff or a field of the commit cannot
\* be read): the handler of the run reports the error
ProcessCommitRaises ==
    /\ pc = "loop"
    /\ i < Len(history)
    /\ shown_error' = TRUE
    /\ pc' = "failed"
    /\ UNCHANGED <<repo_vars, call_vars, owners_dict, since_date, i,
                   commit_data, file_changes, owner_total_changes, shown_found,
                   shown_warning, shown_metrics, shown_tables, session, runs>>

\* after the loop: the DataFrame, the early return on no record, the summary,
\* the expanders and the stored result
Report ==
    /\ pc = "loop"
    /\ i = Len(history)
    /\ pc' = "done"
    /\ IF commit_data = <<>>
       THEN /\ shown_warning' = "No file changes found in the commits"
            /\ UNCHANGED <<file_changes, owner_total_changes, shown_metrics,
                           shown_tables, session>>
       ELSE /\ shown_metrics' = <<Metrics(commit_data)>>
            /\ file_changes' = GroupBySize(commit_data)
            /\ \E sums \in {GroupBySum(file_changes')} :
                 \E owner_tie \in TieOrders(Len(sums)),
                    file_tie \in TieOrders(Len(file_changes')) :
                     /\ owner_total_changes' = SortValuesDesc(sums, owner_tie)
                     /\ shown_tables' = OwnerTables(file_changes',
                                                    owner_total_changes',
                                                    file_tie)
            /\ session' = [analysis_df |-> <<commit_data>>,
                           since_date |-> <<since_date>>,
                           repo_path |-> <<repo_path>>]
            /\ UNCHANGED shown_warning
    /\ UNCHANGED <<repo_vars, call_vars, owners_dict, since_date, i,
                   commit_data, shown_found, shown_error, runs>>

\* the next interaction runs the script again: the page is drawn anew, the
\* cutoff is taken from the clock again, st.session_state is kept
Rerun ==
    /\ pc \in {"done", "failed"}
    /\ runs < MaxRuns
    /\ runs' = runs + 1
    /\ since_date' = since_date + 1
    /\ pc' = "idle"
    /\ i' = 0
    /\ commit_data' = <<>>
    /\ file_changes' = <<>>
    /\ owner_total_changes' = <<>>
    /\ owners_dict' = <<>>
    /\ shown_found' = <<>>
    /\ shown_warning' = ""
    /\ shown_error' = FALSE
    /\ shown_metrics' = <<>>
    /\ shown_tables' = <<>>
    /\ UNCHANGED <<repo_vars, call_vars, session>>

Next ==
    \/ ClickAnalyze
    \/ ProcessCommit
    \/ ProcessCommitRaises
    \/ Report
    \/ Rerun

(***************************************************************************)
(* The repositories of the model.                                          *)
(***************************************************************************)
Path(entry) == [a_path |-> entry]

\* a commit from the diffs of its parents, first parent first
Commit(parent_diffs) ==
    [date |-> 0,
     author |-> "dev@example.com",
     parents |-> [k \in 1..Len(parent_diffs) |-> [diff |-> parent_diffs[k]]]]

\* the commits with k entries in the diff from the first parent: without
\* parents (k = 0), with one, or with a second one whose diff holds a path
\* of its own
MergeEntries == {Path(<<"a">>), Path(<<>>)}
SideDiffs == {<<Path(<<"b">>)>>}

MergeCommits(k) ==
    (IF k = 0 THEN {Commit(<<>>)} ELSE {})
        \cup {Commit(<<d>>) : d \in [1..k -> MergeEntries]}
        \cup {Commit(<<d, d2>>) : d \in [1..k -> MergeEntries], d2 \in SideDiffs}

\* the histories of at most n commits and e first-parent entries in all
RECURSIVE MergeHistories(_, _)
MergeHistories(n, e) ==
    IF n = 0
    THEN {<<>>}
    ELSE {<<>>} \cup UNION {{<<c>> \o h : c \in MergeCommits(k),
                                          h \in MergeHistories(n - 1, e - k)} :
                            k \in 0..e}

\* the histories without merges of at most e entries in all, every commit
\* with at least one
LinearEntries == {Path(<<"a">>), Path(<<"a", "b">>), Path(<<"b">>)}

RECURSIVE LinearHistories(_)
LinearHistories(e) ==
    {<<>>} \cup UNION {{<<Commit(<<d>>)>> \o h : d \in [1..k -> LinearEntries],
                                              h \in LinearHistories(e - k)} :
                       k \in 1..e}

\* the k-th file of the large commit: a, aa, ab, aaa, aab, aba, ...
RECURSIVE FileName(_)
FileName(k) ==
    IF k = 1
    THEN <<"a">>
    ELSE FileName(k \div 2) \o <<IF k % 2 = 0 THEN "a" ELSE "b">>

\* the histories of one commit that changes k files (about as many as the
\* rows a table keeps) followed by at most MaxExtra commits of one file each
LargeCommit(k) == Commit(<<[n \in 1..k |-> Path(FileName(n))]>>)

LargeHistories ==
    {<<LargeCommit(k)>> \o h :
        k \in (TopN - 1)..MaxFiles,
        h \in StringsUpTo({Commit(<<<<Path(FileName(1))>>>>),
                           Commit(<<<<Path(FileName(TopN + 1))>>>>),
                           Commit(<<<<Path(<<"b">>)>>>>)}, MaxExtra)}

\* committed dates: newest first, the first `same' commits on one instant
Dated(h, same) ==
    [k \in 1..Len(h) |->
        [h[k] EXCEPT !.date = IF k <= same THEN Len(h) ELSE Len(h) - k + 1]]

InitRun ==
    /\ file_path = <<>>
    /\ owner = <<>>
    /\ owners_dict = <<>>
    /\ pc = "idle"
    /\ since_date = 1
    /\ i = 0
    /\ commit_data = <<>>
    /\ file_changes = <<>>
    /\ owner_total_changes = <<>>
    /\ shown_found = <<>>
    /\ shown_warning = ""
    /\ shown_error = FALSE
    /\ shown_metrics = <<>>
    /\ shown_tables = <<>>
    /\ session = NoSession
    /\ runs = 1

NoCodeowners == codeowners_exists = FALSE /\ codeowners = <<>>

Codeowners ==
    /\ codeowners_exists = TRUE
    /\ codeowners = RuleLine(<<"a", "*">>, <<"@", "x">>)

Init ==
    /\ \/ /\ NoCodeowners \/ Codeowners
          /\ has_master = FALSE
          /\ history = <<>>
       \/ /\ Codeowners
          /\ has_master = TRUE
          /\ \E h \in MergeHistories(MaxCommits, MaxEntries) :
                 history = Dated(h, 1)
       \/ /\ NoCodeowners \/ Codeowners
          /\ has_master = TRUE
          /\ \E h \in LinearHistories(MaxRecords) :
                 \E same \in 1..Len(h) : history = Dated(h, same)
       \/ /\ NoCodeowners \/ Codeowners
          /\ has_master = TRUE
          /\ \E h \in LargeHistories : history = Dated(h, 1)
    /\ InitRun

Spec == Init /\ [][Next]_vars

(***************************************************************************)
(* The claims of the run.                                                  *)
(***************************************************************************)
\* the records of an owner, and of an owner and a file
RecordsOf(name) == {k \in DOMAIN commit_data : commit_data[k].owner = name}

RecordsOfFile(name, file) ==
    {k \in RecordsOf(name) : commit_data[k].file = file}

FilesOf(name) == {commit_data[k].file : k \in RecordsOf(name)}

RECURSIVE TotalOf(_)
TotalOf(rows) == IF rows = <<>> THEN 0 ELSE Head(rows).changes + TotalOf(Tail(rows))

\* the run ended with a report
Reported == pc = "done" /\ commit_data # <<>>

\* C3: the grouping has one row per (owner, file) of the records, with the
\* number of the records of the pair (at least 1); the total of an owner is
\* the number of its records; the counts add up to the number of records.
C3_GroupCounts ==
    Reported =>
        LET pairs == {<<commit_data[k].owner, commit_data[k].file>> :
                          k \in DOMAIN commit_data}
            names == {commit_data[k].owner : k \in DOMAIN commit_data}
        IN /\ Len(file_changes) = Cardinality(pairs)
           /\ \A n \in DOMAIN file_changes :
                  /\ <<file_changes[n].owner, file_changes[n].file>> \in pairs
                  /\ file_changes[n].changes >= 1
                  /\ file_changes[n].changes =
                         Cardinality(RecordsOfFile(file_changes[n].owner,
                                                   file_changes[n].file))
           /\ \A q \in pairs :
                  Cardinality({n \in DOMAIN file_changes :
                      <<file_changes[n].owner, file_changes[n].file>> = q}) = 1
           /\ Len(owner_total_changes) = Cardinality(names)
           /\ \A name \in names :
                  \E n \in DOMAIN owner_total_changes :
                      /\ owner_total_changes[n].owner = name
                      /\ owner_total_changes[n].changes =
                             Cardinality(RecordsOf(name))
           /\ TotalOf(file_changes) = Len(commit_data)

\* two commits that each change the file a once: the row (@x, a, 2)
C3_Witness ==
    /\ Reported
    /\ Len(history) = 2
    /\ \A k \in 1..2 : history[k].parents = <<[diff |-> <<Path(<<"a">>)>>]>>
    /\ file_changes = <<[owner |-> <<"@", "x">>, file |-> <<"a">>, changes |-> 2]>>
    /\ owner_total_changes = <<[owner |-> <<"@", "x">>, changes |-> 2]>>

\* C4: the table of an owner has min(30, n) rows for the n files of the
\* owner, no file left out has more changes than a file shown, and the
\* total shown is that of all n files.
C4_TopRows ==
    Reported =>
        /\ {shown_tables[t].owner : t \in DOMAIN shown_tables}
               = {commit_data[k].owner : k \in DOMAIN commit_data}
        /\ \A t \in DOMAIN shown_tables :
               LET name == shown_tables[t].owner
                   rows == shown_tables[t].owner_files
                   shown == {rows[r].file : r \in DOMAIN rows}
                   n == Cardinality(FilesOf(name))
               IN /\ Len(rows) = (IF n < 30 THEN n ELSE 30)
                  /\ Cardinality(shown) = Len(rows)
                  /\ shown \subseteq FilesOf(name)
                  /\ \A f \in FilesOf(name) \ shown, g \in shown :
                         Cardinality(RecordsOfFile(name, f))
                             <= Cardinality(RecordsOfFile(name, g))
                  /\ shown_tables[t].total_changes = Cardinality(RecordsOf(name))

\* an owner with more than 30 files, not all changed equally often
C4_Witness ==
    /\ Reported
    /\ \E t \in DOMAIN shown_tables :
           LET name == shown_tables[t].owner
               rows == shown_tables[t].owner_files
           IN /\ Cardinality(FilesOf(name)) > 30
              /\ Len(rows) = 30
              /\ shown_tables[t].total_changes > TotalOf(rows)
              /\ \E r, q \in DOMAIN rows : rows[r].changes > rows[q].changes

\* C5: the tables come in non-increasing order of the owners' totals, the
\* rows of a table in non-increasing order of their changes.
C5_RankedOrder ==
    Reported =>
        /\ \A t \in 1..(Len(shown_tables) - 1) :
               shown_tables[t].total_changes >= shown_tables[t + 1].total_changes
        /\ \A t \in DOMAIN shown_tables :
               \A r \in 1..(Len(shown_tables[t].owner_files) - 1) :
                   shown_tables[t].owner_files[r].changes
                       >= shown_tables[t].owner_files[r + 1].changes

\* two owners of different totals, one of them with files of different
\* changes
C5_Witness ==
    /\ Reported
    /\ Len(shown_tables) = 2
    /\ shown_tables[1].total_changes > shown_tables[2].total_changes
    /\ \E t \in DOMAIN shown_tables :
           \E r, q \in DOMAIN shown_tables[t].owner_files :
               shown_tables[t].owner_files[r].changes
                   > shown_tables[t].owner_files[q].changes

\* the first record of an owner, and of a file of an owner
FirstOf(name) == CHOOSE k \in RecordsOf(name) : \A j \in RecordsOf(name) : k <= j

FirstOfFile(name, file) ==
    CHOOSE k \in RecordsOfFile(name, file) :
        \A j \in RecordsOfFile(name, file) : k <= j

\* C6: owners of equal totals come in the order of their first records, and
\* files of one owner of equal changes in the order of their first records.
C6_TiesByEncounter ==
    Reported =>
        /\ \A t, u \in DOMAIN shown_tables :
               (t < u /\ shown_tables[t].total_changes
                             = shown_tables[u].total_changes)
                   => FirstOf(shown_tables[t].owner) < FirstOf(shown_tables[u].owner)
        /\ \A t \in DOMAIN shown_tables :
               LET name == shown_tables[t].owner
                   rows == shown_tables[t].owner_files
               IN \A r, q \in DOMAIN rows :
                      (r < q /\ rows[r].changes = rows[q].changes)
                          => FirstOfFile(name, rows[r].file)
                                 < FirstOfFile(name, rows[q].file)

\* the a-side paths a commit is to contribute: none without parents, else
\* those of the diff from the first parent that are not empty
RECURSIVE PathsOf(_)
PathsOf(diff) ==
    IF diff = <<>>
    THEN <<>>
    ELSE (IF Head(diff).a_path = <<>> THEN <<>> ELSE <<Head(diff).a_path>>)
             \o PathsOf(Tail(diff))

Contributed(commit) ==
    IF Len(commit.parents) = 0 THEN <<>> ELSE PathsOf(commit.parents[1].diff)

RECURSIVE ContributedUpTo(_)
ContributedUpTo(n) ==
    IF n = 0
    THEN <<>>
    ELSE ContributedUpTo(n - 1) \o
             [k \in 1..Len(Contributed(history[n])) |->
                 [date |-> history[n].date, file |-> Contributed(history[n])[k]]]

\* C7: the records are, commit by commit, one per entry with an a-side path
\* of the diff from the first parent, and none for a commit without parents.
C7_FirstParentRecords ==
    pc \in {"loop", "done", "failed"} =>
        [k \in 1..Len(commit_data) |->
            [date |-> commit_data[k].date, file |-> commit_data[k].file]]
            = ContributedUpTo(i)

\* a merge whose second parent alone differs in b, then a commit without
\* parents: one record, of the file of the first parent's diff
C7_Witness ==
    /\ pc = "loop"
    /\ i = 2
    /\ Len(history[1].parents) = 2
    /\ history[1].parents[1].diff = <<Path(<<"a">>)>>
    /\ history[1].parents[2].diff = <<Path(<<"b">>)>>
    /\ history[2].parents = <<>>
    /\ Len(commit_data) = 1
    /\ commit_data[1].file = <<"a">>

\* the run ended on an empty history
EmptyWalk == pc = "done" /\ has_master /\ history = <<>>

\* C8 as stated: on an empty history the run ends without an error, its
\* summary reports zero commits, zero files and zero owners, and there is
\* no table.
C8_ZeroSummary ==
    EmptyWalk =>
        /\ ~shown_error
        /\ shown_metrics = <<[commits |-> 0, files |-> 0, owners |-> 0]>>
        /\ shown_tables = <<>>

\* C8 as amended: on an empty history the run ends without an error, it
\* reports that 0 commits were found and warns that none is in the time
\* range; it shows no summary metric and no table and stores no result.
C8_EmptyWalkWarns ==
    EmptyWalk =>
        /\ ~shown_error
        /\ shown_found = <<0>>
        /\ shown_warning = "No commits found in the specified time range"
        /\ shown_metrics = <<>>
        /\ shown_tables = <<>>
        /\ session.since_date # <<since_date>>

C8_Witness == EmptyWalk /\ shown_found = <<0>> /\ shown_warning # ""

\* C9: a pass of the loop that raises, at any commit, ends the run with the
\* error reported, no summary metric and no table shown, and the stored
\* result as it was.
C9_ErrorAborts ==
    [][(pc = "loop" /\ pc' = "failed") =>
           /\ shown_error'
           /\ shown_metrics' = <<>>
           /\ shown_tables' = <<>>
           /\ session' = session]_vars

\* the middle commit of three raised, with records collected and a result
\* of an earlier run stored
C9_Witness ==
    /\ pc = "failed"
    /\ Len(history) = 3
    /\ i = 1
    /\ commit_data # <<>>
    /\ session # NoSession
    /\ shown_error

====
